---- MODULE Spec2Model ----
(***************************************************************************)
(* A model of the web crawler of src/main.go: the recursive process()      *)
(* tasks, the shared visited list URLs, the WaitGroup, the page store and  *)
(* the pure string functions they use (url.Parse, extractUrls,             *)
(* checkIfChildren, filepath.Join, path.Base).                             *)
(*                                                                         *)
(* Strings are TLA+ strings; TLC evaluates Len, \o, SubSeq, Head and Tail  *)
(* on them.  A document is the sequence of its <a> elements in document    *)
(* (depth-first) order, each the sequence of the values of its href        *)
(* attributes in the order written: that is all of a parsed document that  *)
(* extractUrls reads.                                                      *)
(***************************************************************************)
EXTENDS Integers, Sequences, FiniteSets, TLC

\* The element of a one-element set.  Only({F(x) : x \in {e}}) is F(e) with e
\* evaluated once, where F(e) would evaluate it at every use of its parameter.
Only(S) == CHOOSE x \in S : TRUE

(***************************************************************************)
(* Strings (package strings).                                              *)
(***************************************************************************)
Ch(s, i) == SubSeq(s, i, i)

HasPrefix(s, p) == Len(p) <= Len(s) /\ SubSeq(s, 1, Len(p)) = p

HasSuffix(s, p) == Len(p) <= Len(s) /\ SubSeq(s, Len(s) - Len(p) + 1, Len(s)) = p

TrimSuffix(s, p) == IF HasSuffix(s, p) THEN SubSeq(s, 1, Len(s) - Len(p)) ELSE s

\* strings.Index, and LastIndex for a one-character separator, 1-based; 0
\* when absent.
RECURSIVE IndexFrom(_, _, _)
IndexFrom(s, c, i) ==
    IF i + Len(c) - 1 > Len(s) THEN 0
    ELSE IF SubSeq(s, i, i + Len(c) - 1) = c THEN i
    ELSE IndexFrom(s, c, i + 1)

Index(s, c) == Only({IndexFrom(v, c, 1) : v \in {s}})

RECURSIVE LastIndexFrom(_, _, _)
LastIndexFrom(s, c, i) ==
    IF i < 1 THEN 0
    ELSE IF Ch(s, i) = c THEN i
    ELSE LastIndexFrom(s, c, i - 1)

LastIndex(s, c) == Only({LastIndexFrom(v, c, Len(v)) : v \in {s}})

Contains(s, c) == Index(s, c) # 0

Count(s, c) == Cardinality({i \in 1..Len(s) : Ch(s, i) = c})

\* strings.Cut(s, c): the text before and after the first c.
CutBefore(s, c) == IF Index(s, c) = 0 THEN s ELSE SubSeq(s, 1, Index(s, c) - 1)

CutAfter(s, c) == IF Index(s, c) = 0 THEN "" ELSE SubSeq(s, Index(s, c) + 1, Len(s))

(***************************************************************************)
(* Characters and bytes.  A text is a TLA+ string in which a printable     *)
(* ASCII byte other than the backquote, and each of the tab, the line feed *)
(* and the carriage return, is itself, and every other byte (the other     *)
(* control bytes, the backquote 0x60, 0x7F and 0x80..0xFF, which a TLA+    *)
(* string cannot hold) is written as ESC and its two hexadecimal digits.   *)
(* Every byte has one writing and the writing of a text is the writings of *)
(* its bytes in order, so equality, prefixes, suffixes and the search for  *)
(* a printable byte are those of the bytes.  PrintableLo is the range      *)
(* 0x20..0x5F and PrintableHi the range 0x61..0x7E, in order.              *)
(***************************************************************************)
Lower == "abcdefghijklmnopqrstuvwxyz"

Upper == "ABCDEFGHIJKLMNOPQRSTUVWXYZ"

Digits == "0123456789"

PrintableLo == " !\"#$%&'()*+,-./0123456789:;<=>?@ABCDEFGHIJKLMNOPQRSTUVWXYZ[\\]^_"

PrintableHi == "abcdefghijklmnopqrstuvwxyz{|}~"

LF == "\n"

ESC == "\f"

HexDigits == "0123456789ABCDEF"

IsLetter(c) == Contains(Lower, c) \/ Contains(Upper, c)

IsDigit(c) == Contains(Digits, c)

ToLowerCh(c) == IF Contains(Upper, c) THEN Ch(Lower, Index(Upper, c)) ELSE c

RECURSIVE ToLower(_)
ToLower(s) == IF s = "" THEN "" ELSE ToLowerCh(Head(s)) \o ToLower(Tail(s))

\* net/url ishex and unhex.
IsHex(c) == IsDigit(c) \/ Contains("abcdef", c) \/ Contains("ABCDEF", c)

Unhex(c) ==
    IF IsDigit(c) THEN Index(Digits, c) - 1
    ELSE IF Contains("abcdef", c) THEN Index("abcdef", c) + 9
    ELSE Index("ABCDEF", c) + 9

\* The writing of the byte with this code.
ByteChar(code) ==
    IF code = 9 THEN "\t"
    ELSE IF code = 10 THEN LF
    ELSE IF code = 13 THEN "\r"
    ELSE IF code >= 32 /\ code <= 95 THEN Ch(PrintableLo, code - 31)
    ELSE IF code >= 97 /\ code <= 126 THEN Ch(PrintableHi, code - 96)
    ELSE ESC \o Ch(HexDigits, (code \div 16) + 1) \o Ch(HexDigits, (code % 16) + 1)

\* The place of the character c in a table that holds it.
PlaceIn(table, c) == CHOOSE i \in 1..Len(table) : Ch(table, i) = c

\* The code of the byte whose writing starts with the character c, followed
\* by the two digits hex when c is ESC.
CodeOf(c, hex) ==
    IF c = ESC THEN 16 * Unhex(Ch(hex, 1)) + Unhex(Ch(hex, 2))
    ELSE IF c = "\t" THEN 9
    ELSE IF c = LF THEN 10
    ELSE IF c = "\r" THEN 13
    ELSE IF \E i \in 1..Len(PrintableLo) : Ch(PrintableLo, i) = c
         THEN PlaceIn(PrintableLo, c) + 31
    ELSE PlaceIn(PrintableHi, c) + 96

\* The code of the first byte of a text, and the length of its writing.
HeadCode(s) ==
    Only({CodeOf(c, hex) : c \in {Head(s)},
                           hex \in {IF Head(s) = ESC THEN SubSeq(s, 2, 3) ELSE ""}})

HeadLen(s) == IF Head(s) = ESC THEN 3 ELSE 1

\* The bytes of a text.
RECURSIVE Bytes(_)
Bytes(s) ==
    IF s = "" THEN <<>>
    ELSE Only({<<code>> \o Bytes(rest) :
                  code \in {HeadCode(s)},
                  rest \in {SubSeq(s, HeadLen(s) + 1, Len(s))}})

RECURSIVE FromBytes(_)
FromBytes(b) ==
    IF b = <<>> THEN ""
    ELSE Only({ByteChar(Head(b)) \o FromBytes(rest) : rest \in {Tail(b)}})

\* A byte below 0x20 or the byte 0x7F among those written with ESC.
RECURSIVE EscapedCTL(_)
EscapedCTL(s) ==
    IF ~Contains(s, ESC) THEN FALSE
    ELSE \E i \in {Index(s, ESC)} :
            \/ 16 * Unhex(Ch(s, i + 1)) + Unhex(Ch(s, i + 2)) < 32
            \/ SubSeq(s, i + 1, i + 2) = "7F"
            \/ EscapedCTL(SubSeq(s, i + 3, Len(s)))

\* net/url stringContainsCTLByte.
ContainsCTL(s) ==
    Contains(s, "\t") \/ Contains(s, LF) \/ Contains(s, "\r") \/ EscapedCTL(s)

(***************************************************************************)
(* unicode/utf8, as regexp reads a text: DecodeRuneInString gives a rune   *)
(* and its length, or RuneError and length 1 for a byte that starts no     *)
(* valid encoding.                                                         *)
(***************************************************************************)
\* A continuation byte at place i of b.
Cont(b, i) == i <= Len(b) /\ b[i] >= 128 /\ b[i] <= 191

Between(b, i, lo, hi) == i <= Len(b) /\ b[i] >= lo /\ b[i] <= hi

\* The length of the valid encoding at the head of b, 0 when there is none.
RuneLen(b) ==
    IF b[1] < 128 THEN 1
    ELSE IF b[1] >= 194 /\ b[1] <= 223 /\ Cont(b, 2) THEN 2
    ELSE IF b[1] = 224 /\ Between(b, 2, 160, 191) /\ Cont(b, 3) THEN 3
    ELSE IF b[1] >= 225 /\ b[1] <= 239 /\ b[1] # 237 /\ Cont(b, 2) /\ Cont(b, 3) THEN 3
    ELSE IF b[1] = 237 /\ Between(b, 2, 128, 159) /\ Cont(b, 3) THEN 3
    ELSE IF b[1] = 240 /\ Between(b, 2, 144, 191) /\ Cont(b, 3) /\ Cont(b, 4) THEN 4
    ELSE IF b[1] >= 241 /\ b[1] <= 243 /\ Cont(b, 2) /\ Cont(b, 3) /\ Cont(b, 4) THEN 4
    ELSE IF b[1] = 244 /\ Between(b, 2, 128, 143) /\ Cont(b, 3) /\ Cont(b, 4) THEN 4
    ELSE 0

RECURSIVE ValidBytes(_)
ValidBytes(b) ==
    \/ b = <<>>
    \/ \E n \in {RuneLen(b)} :
          n > 0 /\ \E rest \in {SubSeq(b, n + 1, Len(b))} : ValidBytes(rest)

\* utf8 validity of a text; a text written without ESC is ASCII.
ValidUTF8(s) == ~Contains(s, ESC) \/ \E b \in {Bytes(s)} : ValidBytes(b)

\* The encoding of RuneError, U+FFFD.
RuneError == <<239, 191, 189>>

\* The runes regexp reads in b, each in its encoding: a byte that starts no
\* valid encoding is read as RuneError.
RECURSIVE RuneBytes(_)
RuneBytes(b) ==
    IF b = <<>> THEN <<>>
    ELSE Only({Only({SubSeq(b, 1, n) \o RuneBytes(rest) : rest \in {SubSeq(b, n + 1, Len(b))}}) :
                  n \in {RuneLen(b)} \ {0}}
              \cup {RuneError \o RuneBytes(rest) : rest \in {Tail(b) : n \in {RuneLen(b)} \cap {0}}})

RuneText(s) ==
    IF ~Contains(s, ESC) THEN s
    ELSE Only({FromBytes(r) : r \in {RuneBytes(b) : b \in {Bytes(s)}}})

(***************************************************************************)
(* net/url: Parse, as far as process() and extractUrls read its result     *)
(* (Scheme, Host, Path) and its error.  A URL value is a record; err is    *)
(* TRUE when url.Parse returns (nil, error).                               *)
(***************************************************************************)
\* unescape: every "%" must be followed by two hex digits.
RECURSIVE EscapesOK(_)
EscapesOK(s) ==
    IF s = "" THEN TRUE
    ELSE IF Head(s) = "%"
         THEN /\ Len(s) >= 3
              /\ IsHex(Ch(s, 2))
              /\ IsHex(Ch(s, 3))
              /\ EscapesOK(SubSeq(s, 4, Len(s)))
         ELSE EscapesOK(Tail(s))

\* unescape in path or fragment mode: each %XX becomes its byte ("+" is kept).
RECURSIVE Unescape(_)
Unescape(s) ==
    IF s = "" THEN ""
    ELSE IF Head(s) = "%" /\ Len(s) >= 3
         THEN ByteChar(16 * Unhex(Ch(s, 2)) + Unhex(Ch(s, 3))) \o Unescape(SubSeq(s, 4, Len(s)))
         ELSE Head(s) \o Unescape(Tail(s))

\* getScheme: the index of the ":" that ends a scheme, 0 when the text has no
\* scheme, -1 for "missing protocol scheme" (a leading ":").
RECURSIVE SchemeEnd(_, _)
SchemeEnd(s, i) ==
    IF i > Len(s) THEN 0
    ELSE IF IsLetter(Ch(s, i)) THEN SchemeEnd(s, i + 1)
    ELSE IF IsDigit(Ch(s, i)) \/ Ch(s, i) \in {"+", "-", "."}
         THEN IF i = 1 THEN 0 ELSE SchemeEnd(s, i + 1)
    ELSE IF Ch(s, i) = ":" THEN IF i = 1 THEN -1 ELSE i
    ELSE 0

\* validOptionalPort: "" or ":" followed by digits only.
ValidOptionalPort(port) ==
    \/ port = ""
    \/ /\ Head(port) = ":"
       /\ \A i \in 2..Len(port) : IsDigit(Ch(port, i))

\* shouldEscape(c, encodeHost) is false for this ASCII byte.
HostChar(c) ==
    \/ IsLetter(c)
    \/ IsDigit(c)
    \/ Contains("!$&'()*+,;=:[]<>\"-_.~", c)

\* unescape(s, encodeHost) succeeds: the only escapes are %25 and those of
\* bytes >= 0x80; an unescaped byte is >= 0x80 or a host byte.
RECURSIVE HostEscapesOK(_)
HostEscapesOK(s) ==
    IF s = "" THEN TRUE
    ELSE IF Head(s) = "%"
         THEN /\ Len(s) >= 3
              /\ IsHex(Ch(s, 2))
              /\ IsHex(Ch(s, 3))
              /\ (Unhex(Ch(s, 2)) >= 8 \/ SubSeq(s, 1, 3) = "%25")
              /\ HostEscapesOK(SubSeq(s, 4, Len(s)))
         ELSE IF Head(s) = ESC
         THEN HeadCode(s) >= 128 /\ HostEscapesOK(SubSeq(s, 4, Len(s)))
         ELSE HostChar(Head(s)) /\ HostEscapesOK(Tail(s))

\* unescape(s, encodeZone) succeeds: an escape is %25, or that of a space, or
\* that of a host byte; an unescaped byte is as in a host.
RECURSIVE ZoneEscapesOK(_)
ZoneEscapesOK(s) ==
    IF s = "" THEN TRUE
    ELSE IF Head(s) = "%"
         THEN /\ Len(s) >= 3
              /\ IsHex(Ch(s, 2))
              /\ IsHex(Ch(s, 3))
              /\ \E v \in {16 * Unhex(Ch(s, 2)) + Unhex(Ch(s, 3))} :
                     \/ SubSeq(s, 1, 3) = "%25"
                     \/ v = 32
                     \/ (v > 32 /\ v < 127 /\ v # 96 /\ HostChar(ByteChar(v)))
              /\ ZoneEscapesOK(SubSeq(s, 4, Len(s)))
         ELSE IF Head(s) = ESC
         THEN HeadCode(s) >= 128 /\ ZoneEscapesOK(SubSeq(s, 4, Len(s)))
         ELSE HostChar(Head(s)) /\ ZoneEscapesOK(Tail(s))

\* parseHost: the error cases.  In a bracketed literal the first "%25" before
\* the last "]" starts the zone, which is unescaped in zone mode.
HostOK(host) ==
    IF HasPrefix(host, "[")
    THEN /\ Contains(host, "]")
         /\ ValidOptionalPort(SubSeq(host, LastIndex(host, "]") + 1, Len(host)))
         /\ \E i \in {LastIndex(host, "]")} :
                \E zone \in {Index(SubSeq(host, 1, i - 1), "%25")} :
                   IF zone > 0
                   THEN /\ HostEscapesOK(SubSeq(host, 1, zone - 1))
                        /\ ZoneEscapesOK(SubSeq(host, zone, i - 1))
                        /\ HostEscapesOK(SubSeq(host, i, Len(host)))
                   ELSE HostEscapesOK(host)
    ELSE /\ \/ ~Contains(host, ":")
            \/ ValidOptionalPort(SubSeq(host, LastIndex(host, ":"), Len(host)))
         /\ HostEscapesOK(host)

\* validUserinfo.
UserinfoOK(u) ==
    /\ \A i \in 1..Len(u) :
          \/ IsLetter(Ch(u, i))
          \/ IsDigit(Ch(u, i))
          \/ Contains("-._:~!$&'()*+,;=%@", Ch(u, i))
    /\ EscapesOK(u)

\* parseAuthority: the host part, after the last "@".
AuthorityHost(a) == SubSeq(a, LastIndex(a, "@") + 1, Len(a))

AuthorityOK(a) ==
    /\ HostOK(AuthorityHost(a))
    /\ (Contains(a, "@") => UserinfoOK(SubSeq(a, 1, LastIndex(a, "@") - 1)))

NoURL == [err |-> TRUE, Scheme |-> "", Opaque |-> "", Host |-> "", Path |-> "",
          RawQuery |-> "", Fragment |-> ""]

\* The stages of parse(rawURL, viaRequest = false), each handing what it has
\* split off to the next.  setPath: the rest is unescaped into Path.
ParsePath(scheme, host, rest, query) ==
    IF ~EscapesOK(rest) THEN NoURL
    ELSE [err |-> FALSE, Scheme |-> scheme, Opaque |-> "", Host |-> host,
          Path |-> Unescape(rest), RawQuery |-> query, Fragment |-> ""]

\* The text after "//": the authority up to the next "/", then the path.
ParseAuthority(scheme, auth, rest, query) ==
    IF ~AuthorityOK(auth) THEN NoURL
    ELSE ParsePath(scheme, Unescape(AuthorityHost(auth)), rest, query)

\* The text after the scheme and before the query: opaque, or authority and
\* path, or path alone.
ParseRest(scheme, rest, query) ==
    IF ~HasPrefix(rest, "/") /\ scheme # ""
    THEN [NoURL EXCEPT !.err = FALSE, !.Scheme = scheme, !.Opaque = rest,
                       !.RawQuery = query]
    ELSE IF ~HasPrefix(rest, "/") /\ Contains(CutBefore(rest, "/"), ":") THEN NoURL
    ELSE IF (scheme # "" \/ ~HasPrefix(rest, "///")) /\ HasPrefix(rest, "//")
         THEN Only({ParseAuthority(scheme, auth, path, query) :
                       auth \in {CutBefore(SubSeq(rest, 3, Len(rest)), "/")},
                       path \in {IF Contains(SubSeq(rest, 3, Len(rest)), "/")
                                 THEN SubSeq(rest, Index(SubSeq(rest, 3, Len(rest)), "/") + 2, Len(rest))
                                 ELSE ""}})
         ELSE ParsePath(scheme, "", rest, query)

\* A single "?" at the end only sets ForceQuery; otherwise the text is cut at
\* the first "?".
ForceQuery(rest) == HasSuffix(rest, "?") /\ Count(rest, "?") = 1

ParseQuery(scheme, rest) ==
    Only({ParseRest(scheme, path, query) :
             path \in {IF ForceQuery(rest) THEN SubSeq(rest, 1, Len(rest) - 1)
                       ELSE CutBefore(rest, "?")},
             query \in {IF ForceQuery(rest) THEN "" ELSE CutAfter(rest, "?")}})

ParseScheme(u, se) ==
    IF se = -1 THEN NoURL
    ELSE Only({ParseQuery(scheme, rest) :
                  scheme \in {IF se > 0 THEN ToLower(SubSeq(u, 1, se - 1)) ELSE ""},
                  rest \in {IF se > 0 THEN SubSeq(u, se + 1, Len(u)) ELSE u}})

\* parse(rawURL, viaRequest = false) on the text before "#".
ParseNoFragment(u) ==
    IF ContainsCTL(u) THEN NoURL
    ELSE IF u = "*" THEN [NoURL EXCEPT !.err = FALSE, !.Path = "*"]
    ELSE Only({ParseScheme(u, se) : se \in {SchemeEnd(u, 1)}})

\* setFragment.
WithFragment(p, frag) ==
    IF p.err THEN NoURL
    ELSE IF frag = "" THEN p
    ELSE IF ~EscapesOK(frag) THEN NoURL
    ELSE [p EXCEPT !.Fragment = Unescape(frag)]

\* url.Parse(rawURL).
Parse(rawURL) ==
    Only({WithFragment(p, CutAfter(raw, "#")) :
             raw \in {rawURL},
             p \in {Only({ParseNoFragment(u) : u \in {CutBefore(rawURL, "#")}})}})

(***************************************************************************)
(* path.Base, path/filepath.Clean and Join (Unix separators).              *)
(***************************************************************************)
\* The segments of s between "/" separators.
RECURSIVE Split(_)
Split(s) ==
    IF ~Contains(s, "/") THEN <<s>>
    ELSE <<CutBefore(s, "/")>> \o Only({Split(r) : r \in {CutAfter(s, "/")}})

RECURSIVE JoinSegs(_)
JoinSegs(segs) ==
    IF segs = <<>> THEN ""
    ELSE IF Len(segs) = 1 THEN segs[1]
    ELSE segs[1] \o "/" \o JoinSegs(Tail(segs))

\* Clean's pass over the segments: "" and "." are dropped, ".." removes the
\* segment before it, is dropped at the root, and is kept at the start of a
\* relative path.
RECURSIVE CleanSegs(_, _, _)
CleanSegs(segs, out, rooted) ==
    IF segs = <<>> THEN out
    ELSE LET e == Head(segs)
         IN  IF e = "" \/ e = "." THEN CleanSegs(Tail(segs), out, rooted)
             ELSE IF e = ".."
                  THEN IF out # <<>> /\ out[Len(out)] # ".."
                       THEN CleanSegs(Tail(segs), SubSeq(out, 1, Len(out) - 1), rooted)
                       ELSE IF rooted THEN CleanSegs(Tail(segs), out, rooted)
                       ELSE CleanSegs(Tail(segs), Append(out, e), rooted)
             ELSE CleanSegs(Tail(segs), Append(out, e), rooted)

CleanBody(path, body) ==
    IF path = "" THEN "."
    ELSE IF HasPrefix(path, "/") THEN "/" \o body
    ELSE IF body = "" THEN "."
    ELSE body

Clean(path) ==
    Only({CleanBody(p, JoinSegs(Only({CleanSegs(segs, <<>>, HasPrefix(p, "/")) :
                                         segs \in {Split(p)}}))) :
             p \in {path}})

\* filepath.Join(a, b): the non-empty elements joined by "/", then cleaned.
Join(a, b) ==
    IF a = "" /\ b = "" THEN ""
    ELSE IF a = "" THEN Clean(b)
    ELSE IF b = "" THEN Clean(a)
    ELSE Clean(a \o "/" \o b)

RECURSIVE TrimSlashes(_)
TrimSlashes(s) == IF HasSuffix(s, "/") THEN TrimSlashes(SubSeq(s, 1, Len(s) - 1)) ELSE s

\* path.Base.
BaseTrimmed(path, t) ==
    IF path = "" THEN "."
    ELSE IF t = "" THEN "/"
    ELSE SubSeq(t, LastIndex(t, "/") + 1, Len(t))

Base(path) == Only({BaseTrimmed(path, t) : t \in {TrimSlashes(path)}})

(***************************************************************************)
(* checkIfChildren: regexp.MustCompile panics when the pattern, which      *)
(* holds the target byte for byte (QuoteMeta only adds backslashes), is    *)
(* not valid UTF-8.  Otherwise ^QuoteMeta(target)(?:\/.*|)$ matches the     *)
(* runes of input, a byte of input that starts no valid encoding being     *)
(* read as U+FFFD, when they are the target, or the target followed by "/" *)
(* and any runes but the line feed ("." does not match "\n").              *)
(***************************************************************************)
Panic == "panic"

\* Lines 285-286: the pattern compiles.
MustCompile(target) == ValidUTF8(target)

\* Line 287, for a pattern that compiled: runes is the input as it is read.
MatchString(runes, target) ==
    \/ runes = target
    \/ /\ HasPrefix(runes, target \o "/")
       /\ ~Contains(SubSeq(runes, Len(target) + 2, Len(runes)), LF)

\* The value returned, or Panic.
checkIfChildren(input, target) ==
    IF ~MustCompile(target) THEN Panic
    ELSE Only({MatchString(runes, target) : runes \in {RuneText(input)}})

(***************************************************************************)
(* extractUrls, on the <a> elements of the document in depth-first order.  *)
(* page is the parsed URL of the page being processed.  The loops carry a  *)
(* record: the list urls built so far; panic, TRUE once the call of        *)
(* checkIfChildren has panicked, which ends the function; and brk, TRUE    *)
(* once a break has left the loop over the attributes of the current       *)
(* element.                                                                *)
(***************************************************************************)
NoUrls == [urls |-> <<>>, panic |-> FALSE]

\* Line 218: the loop over the attributes of an element starts.
NoBreak(acc) == [urls |-> acc.urls, panic |-> acc.panic, brk |-> FALSE]

\* Lines 237 and 252: break.
Break(acc) == [acc EXCEPT !.brk = TRUE]

\* Lines 227-231: the loop over invalidValues only continues its own loop; it
\* skips nothing.
InvalidValueSkips(href) == FALSE

\* Lines 260-264: the loop over urls only continues its own loop; no
\* duplicate is skipped.
DuplicateSkips(urls, newUrl) == FALSE

\* Lines 266-270: the trailing "/" is removed and a link to the page itself
\* dropped.
extractAppend(acc, trimmed, page) ==
    IF trimmed = page.Host \o page.Path THEN acc
    ELSE [acc EXCEPT !.urls = Append(@, page.Scheme \o "://" \o trimmed)]

\* Lines 257-271.
extractChild(acc, newUrl, page) ==
    IF ~MustCompile(page.Host \o page.Path) THEN [acc EXCEPT !.panic = TRUE]
    ELSE IF ~checkIfChildren(newUrl, page.Host \o page.Path) THEN acc
    ELSE IF DuplicateSkips(acc.urls, newUrl) THEN acc
    ELSE Only({extractAppend(acc, trimmed, page) : trimmed \in {TrimSuffix(newUrl, "/")}})

\* Lines 250-254: p is the host and the text starting with "/", parsed again,
\* which drops the query string and the fragment; a parse error breaks.
extractParsedRelative(acc, p, page) ==
    IF p.err THEN Break(acc) ELSE extractChild(acc, p.Path, page)

\* Lines 248-255.
extractRelative(acc, newUrl, page) ==
    IF HasPrefix(newUrl, "/")
    THEN Only({extractParsedRelative(acc, p, page) : p \in {Parse(page.Host \o newUrl)}})
    ELSE extractChild(acc, newUrl, page)

\* Lines 236-244: p is the parsed href; a parse error breaks, another host
\* continues, and the href is replaced by its path.
extractSameHost(acc, p, page) ==
    IF p.err THEN Break(acc)
    ELSE IF page.Host # p.Host THEN acc
    ELSE extractRelative(acc, p.Path, page)

\* The body of the loop over an element's attributes (lines 219-272), for one
\* href: acc with what this href adds, and brk set when the loop is left.
extractOne(acc, href, page) ==
    IF HasPrefix(href, "#") \/ InvalidValueSkips(href) THEN acc
    ELSE IF HasPrefix(href, "http")
         THEN Only({extractSameHost(acc, p, page) : p \in {Parse(href)}})
    ELSE extractRelative(acc, href, page)

\* Lines 218-273: the loop over the href attributes of one <a> element, which
\* a break or a panic ends; the attributes left are not read.
RECURSIVE extractAttrs(_, _, _)
extractAttrs(acc, hrefs, page) ==
    IF hrefs = <<>> \/ acc.panic \/ acc.brk THEN acc
    ELSE Only({extractAttrs(more, Tail(hrefs), page) :
                  more \in {extractOne(acc, Head(hrefs), page)}})

\* Lines 216-278: f over the <a> elements of the document, one after the
\* other; a break in one element does not reach the next.
RECURSIVE extractFrom(_, _, _)
extractFrom(acc, anchors, page) ==
    IF anchors = <<>> \/ acc.panic THEN acc
    ELSE Only({extractFrom(more, Tail(anchors), page) :
                  more \in {extractAttrs(NoBreak(acc), Head(anchors), page)}})

\* Lines 204-282: the urls returned, or the panic.
extractUrls(anchors, page) ==
    Only({[urls |-> r.urls, panic |-> r.panic] :
             r \in {extractFrom(NoUrls, a, p) : a \in {anchors}, p \in {page}}})

(***************************************************************************)
(* process(), lines 67-97: the pure part.                                  *)
(***************************************************************************)
\* Lines 68-69.
parsedURLOf(target) == Parse(TrimSuffix(target, "/"))

\* Line 75: the key compared with and appended to URLs.
KeyOf(parsedURL) == parsedURL.Scheme \o "://" \o parsedURL.Host \o parsedURL.Path

dir == "./data"

\* Lines 91-100: the file checkForFile reads and save writes.
fileNameOf(parsedURL) ==
    Only({IF b = "." THEN "index" ELSE b : b \in {Base(parsedURL.Path)}})

SaveFile(parsedURL) ==
    Join(dir, parsedURL.Path) \o "/" \o fileNameOf(parsedURL) \o ".html"

(***************************************************************************)
(* The crawls checked: a seed (the -url flag) and a site, which maps the   *)
(* host and path of a request to the document served there, the <a>        *)
(* elements with their hrefs; a request for anything else is answered 404. *)
(***************************************************************************)
\* In and out of scope links (/blog, /dx, another host), a query string, a
\* trailing slash, and a page (/d/e) linked only from a page deeper than the
\* seed.
SiteDocs ==
    ("g/d" :> <<<<"#top">>, <<"/">>, <<"/d/a">>, <<"https://o/x">>, <<"/blog">>, <<"/dx">>>>)
    @@ ("g/d/a" :> <<<<"https://g/d/a/c?q">>, <<"/d/e">>, <<"/d/a/">>>>)
    @@ ("g/d/a/c" :> <<<<"/d">>>>)
    @@ ("g/d/e" :> <<>>)
    @@ ("g/blog" :> <<<<"/d/e">>>>)
    @@ ("g/dx" :> <<>>)
    @@ ("o/x" :> <<<<"/d/a">>>>)

\* Two anchors of one page that normalize to the same URL.
SiteTwice ==
    ("g/d" :> <<<<"/d/a">>, <<"/d/a/">>>>)
    @@ ("g/d/a" :> <<>>)

\* An href whose decoded path holds a "%" that starts no escape, and an
\* element with two hrefs, the first of which does not parse.
SitePercent ==
    ("g/d" :> <<<<"/d/%25">>, <<"/d/%zz", "/d/b">>, <<"/d/a">>>>)
    @@ ("g/d/a" :> <<>>)

\* An href with a doubled "/" inside the path: /d//a is not /d/a for the
\* visited list, and its file is the file of /d/a.
SiteSlashes ==
    ("g/d" :> <<<<"/d//a">>, <<"/d/a">>>>)
    @@ ("g/d/a" :> <<<<"/d//a/z">>>>)

\* Hrefs that end in more than one "/": after a path (/d/b///) and after the
\* path of the page itself (/d//).
SiteTrailing ==
    ("g/d" :> <<<<"/d/b///">>, <<"/d//">>>>)
    @@ ("g/d/b" :> <<>>)

\* Paths with bytes beyond ASCII: e-acute and e-grave in UTF-8 (C3 A9 and
\* C3 A8), and the byte FF, with which the path is not valid UTF-8.
SiteBytes ==
    ("g/d" :> <<<<"/d/%C3%A9">>, <<"/d/%FF">>>>)
    @@ ("g/d/\fC3\fA9" :> <<<<"/d/%C3%A8/x">>>>)
    @@ ("g/d/\fFF" :> <<<<"/d/%FF/z">>>>)

\* Two links, to pages the server does not have, on a page two levels below
\* the seed: the calls for them, their keys of one length, run side by side
\* when the list has three elements and room for a fourth.
SiteDeep ==
    ("g/d" :> <<<<"/d/a">>>>)
    @@ ("g/d/a" :> <<<<"/d/a/a">>>>)
    @@ ("g/d/a/a" :> <<<<"/d/a/a/b">>, <<"/d/a/a/c">>>>)

\* A seed whose path is the rune U+FFFD (EF BF BD in UTF-8), and on its page
\* a link to a path that starts with the byte FF, which is no UTF-8.
SiteRunes ==
    ("g/\fEF\fBF\fBD" :> <<<<"/%FF/x">>>>)

Seeds == <<"https://g/d/", "https://g/d", "https://g/d", "https://g/d", "https://g/d",
           "https://g/d", "https://g/d", "https://g/%EF%BF%BD">>

Sites == <<SiteDocs, SiteTwice, SitePercent, SiteSlashes, SiteTrailing, SiteBytes,
           SiteDeep, SiteRunes>>

(***************************************************************************)
(* Bytes of pages and files.  The server sends a document as              *)
(*   <html> elements </html>      an element being                         *)
(*   <a href="h1" href="h2">x</a>                                          *)
(* with one href="..." for each href of the element.  What the model keeps *)
(* of a sequence of bytes is its length (size) and the <a> elements whole  *)
(* in it, each with the offset of its first byte (at): a file written over *)
(* by a shorter page keeps the elements of its tail.                       *)
(***************************************************************************)
\* No bytes: a nil or empty []byte, an empty file.
NoBytes == [size |-> 0, elements |-> <<>>]

\* The bytes of  href="h"  with the space before it.
RECURSIVE AttrsSize(_)
AttrsSize(hrefs) ==
    IF hrefs = <<>> THEN 0
    ELSE 8 + Len(Bytes(Head(hrefs))) + AttrsSize(Tail(hrefs))

\* The bytes of  <a ...>x</a>.
ElementSize(hrefs) == 8 + AttrsSize(hrefs)

\* The elements of a page with their offsets, the first one at offset at.
RECURSIVE Placed(_, _)
Placed(anchors, at) ==
    IF anchors = <<>> THEN <<>>
    ELSE <<[at |-> at, hrefs |-> Head(anchors)]>>
         \o Placed(Tail(anchors), at + ElementSize(Head(anchors)))

\* The page sent for a document: <html> is 6 bytes and </html> 7.
RenderedFrom(elements) ==
    [size |-> (IF elements = <<>> THEN 6
               ELSE elements[Len(elements)].at + ElementSize(elements[Len(elements)].hrefs)) + 7,
     elements |-> elements]

Rendered(anchors) == Only({RenderedFrom(e) : e \in {Placed(anchors, 6)}})

\* Lines 117 and 216-217: the <a> elements html.Parse finds in the bytes.
parseHTML(data) == [i \in 1..Len(data.elements) |-> data.elements[i].hrefs]

\* The elements of a file that start at offset from or later.
RECURSIVE ElementsFrom(_, _)
ElementsFrom(elements, from) ==
    IF elements = <<>> THEN <<>>
    ELSE IF Head(elements).at >= from THEN elements
    ELSE ElementsFrom(Tail(elements), from)

\* Line 187, file.Write(data) on a file that holds old: the file was opened
\* at offset 0 without O_APPEND, so data replaces the first bytes of old and
\* what old has beyond them stays.
Overwritten(data, old) ==
    [size |-> IF data.size >= old.size THEN data.size ELSE old.size,
     elements |-> data.elements \o ElementsFrom(old.elements, data.size)]

\* The injected failures (a transport error of http.Get, a failure of
\* os.MkdirAll or os.Create, a failed file.Write) allowed in the runs of one
\* crawl checked.
MaxFaults == 1

(***************************************************************************)
(* State.                                                                  *)
(***************************************************************************)
VARIABLES
    scn,      \* the crawl: an index of Seeds and Sites
    URLs,     \* the visited list (line 24)
    wg,       \* the WaitGroup's counter (line 26)
    tasks,    \* the process() calls: the seed call <<>> and the goroutines
    store,    \* the mirror directory: file name -> the bytes of the file
    mainpc,   \* main: "process" (line 56), "wait" (line 61), "done" (line 63)
    abort,    \* why the program died (exit status 2), "" while it lives
    faults,   \* the failures injected so far
    run,      \* "first", or "second": the program run again on the same mirror
    prior,    \* what the first run left, for the second
    call      \* the application of a function on its own (PureSpec)

vars == <<scn, URLs, wg, tasks, store, mainpc, abort, faults, run, prior, call>>

\* A task is named by its place in the spawn tree: <<>> is the call of line
\* 56, Append(t, i) the goroutine started for the i-th url extracted by t.
Main == <<>>

NewTask(target) ==
    [target  |-> target,   \* the argument
     pc      |-> "start",
     url     |-> NoURL,    \* parsedURL
     key     |-> "",       \* target after line 75
     inList  |-> FALSE,    \* the key was in URLs when the loop of line 79 ran
     ok      |-> FALSE,
     claimed |-> FALSE,    \* line 87 done
     checked |-> FALSE,    \* checkForFile called
     file    |-> "",       \* the file of lines 91-100
     fetched |-> 0,        \* calls of download
     dlerr   |-> FALSE,    \* download returned an error
     saved   |-> 0,        \* calls of save
     saveerr |-> FALSE,    \* save returned an error
     created |-> FALSE,    \* os.Create of save succeeded
     cause   |-> "",       \* why the call panicked
     content |-> NoBytes,  \* savedContent or content: nil
     parsed  |-> FALSE,    \* parseHTML and extractUrls called
     urls    |-> <<>>,
     next    |-> 1,        \* the loop of line 129
     ret     |-> "none"]   \* the value returned

NoPrior == [files |-> {}, populated |-> FALSE]

NoCall == [op |-> "none", args |-> <<>>, out |-> <<>>]

\* The program started on an empty mirror directory.
Started ==
    /\ URLs = <<>>
    /\ wg = 0
    /\ store = <<>>
    /\ mainpc = "process"
    /\ abort = ""
    /\ faults = 0
    /\ run = "first"
    /\ prior = NoPrior

Init ==
    /\ scn \in 1..Len(Seeds)
    /\ tasks = (Main :> NewTask(Seeds[scn]))
    /\ Started
    /\ call = NoCall

Running(t) == abort = "" /\ t \in DOMAIN tasks

\* A variant of the loop that never finds the target.
FoundNever(key, list) == FALSE

\* Line 80: target == u for some u of the list.
Found(key, list) == \E i \in 1..Len(list) : list[i] = key

(***************************************************************************)
(* A panic in process(): the call stops where it is, the deferred          *)
(* wg.Done() of line 133 runs when the call is a goroutine's, and the      *)
(* runtime then prints the panic and exits with status 2 (Crash).  Between *)
(* the two the other goroutines and main go on: main may return from       *)
(* wg.Wait() and print "done!" before the program exits.                   *)
(***************************************************************************)
Panicking(t, why) ==
    /\ tasks' = [tasks EXCEPT ![t].pc = "panic", ![t].cause = why]
    /\ wg' = IF t = Main THEN wg ELSE wg - 1

\* The runtime ends the program for the panic of t.
Crash(t) ==
    /\ abort = ""
    /\ t \in DOMAIN tasks
    /\ tasks[t].pc = "panic"
    /\ abort' = tasks[t].cause
    /\ UNCHANGED <<run, prior, call, scn, URLs, wg, tasks, store, mainpc, faults>>

(***************************************************************************)
(* Lines 67-83: normalize the target and look for it in URLs.  A nil       *)
(* parsedURL (url.Parse failed) is dereferenced at line 75.  The loop      *)
(* reads URLs without the lock: a data race with the append of line 87 in  *)
(* another goroutine.  The loop ranges over the slice header it read, so   *)
(* it sees the list as it was before or after the append (Scan and Claim   *)
(* in either order), or the append half done.  The append stores the new   *)
(* length before the element, and the element, a string, is two words, its *)
(* address and its length: the loop may read the new element with its      *)
(* length and no address yet, and the comparison of line 80, which reads   *)
(* the bytes when the lengths are equal, then faults at the nil address, a *)
(* panic (Unwritten).  When the append moves the list to a new array (the  *)
(* list is full), the loop may also read a header torn between the two,    *)
(* the old array with the new length, whose last element lies past the end *)
(* of the array (Torn).  What is read there is no element of the list: the *)
(* comparison with it fails, or succeeds, or faults, as a panic (an        *)
(* address in the first page) or as a fatal error, which runs no deferred  *)
(* call and ends the program at once.                                      *)
(***************************************************************************)
\* The sizes in bytes the allocator hands out for the arrays of URLs: the
\* size classes from 16 bytes to 32 KiB that the requests of append fall in
\* or under.
sizeClasses ==
    {16, 32, 64, 128, 256, 512, 1024, 2048, 4096, 8192, 9472, 9728, 10240, 10880,
     12288, 13568, 14336, 16384, 18432, 19072, 20480, 21760, 24576, 27264, 28672,
     32768}

\* The bytes allocated for a request of size bytes: the next size class, or
\* whole pages of 8 KiB beyond the classes.
roundupsize(size) ==
    IF size <= 32768
    THEN CHOOSE c \in sizeClasses : c >= size /\ \A d \in sizeClasses : d >= size => c <= d
    ELSE ((size + 8191) \div 8192) * 8192

\* The capacity asked for when one element is appended to a full list: twice
\* the old one below 256 elements, a quarter more and 192 from there on.
nextslicecap(oldCap) ==
    IF oldCap = 0 THEN 1
    ELSE IF oldCap < 256 THEN 2 * oldCap
    ELSE oldCap + (oldCap + 768) \div 4

\* The capacity of the new array: what fits in the bytes allocated, a string
\* taking 16.
growslice(oldCap) == roundupsize(16 * nextslicecap(oldCap)) \div 16

\* The capacity of a list of n elements that grew by appends of one element
\* from []string{} (line 24): 0, 1, 2, 4, ..., 256, 512, 848, 1280, ... with
\* the runtime of Go 1.18 to 1.21; the capacities beyond 32 vary with the
\* release, those up to 32 do not.
RECURSIVE CapacityFrom(_, _)
CapacityFrom(cap, n) == IF cap >= n THEN cap ELSE CapacityFrom(growslice(cap), n)

\* append allocates a new array for a list of this length: the list is full.
Grows(n) == CapacityFrom(0, n) = n

\* Another call is between the loop of line 79 and the append of line 87.
Appending(t) == \E o \in DOMAIN tasks \ {t} : tasks[o].pc = "claim"

\* The loop reads the old array with the new length.
Torn(t) == Appending(t) /\ Grows(Len(URLs))

\* The loop reads the element another call is appending, its length stored
\* and its address not: line 80 compares the bytes when key has that length.
Unwritten(t, key) ==
    \E o \in DOMAIN tasks \ {t} :
        /\ tasks[o].pc = "claim"
        /\ Len(Bytes(tasks[o].key)) = Len(Bytes(key))

\* The loop ended with this value of ok.
Looked(t, u, ok) ==
    tasks' = [tasks EXCEPT ![t].url = u,
                           ![t].key = KeyOf(u),
                           ![t].inList = (KeyOf(u) \in {URLs[i] : i \in 1..Len(URLs)}),
                           ![t].ok = ok,
                           ![t].pc = IF ok THEN "return" ELSE "claim"]

Scanned(t, u) ==
    IF u.err
    THEN /\ Panicking(t, "nil-deref")
         /\ abort' = abort
    ELSE \/ /\ Looked(t, u, Found(KeyOf(u), URLs))
            /\ UNCHANGED <<wg, abort>>
         \/ /\ Torn(t)
            /\ Looked(t, u, TRUE)
            /\ UNCHANGED <<wg, abort>>
         \/ /\ Torn(t) \/ Unwritten(t, KeyOf(u))
            /\ Panicking(t, "racy-read")
            /\ abort' = abort
         \/ /\ Torn(t)
            /\ abort' = "racy-read"
            /\ UNCHANGED <<wg, tasks>>

Scan(t) ==
    /\ Running(t)
    /\ tasks[t].pc = "start"
    /\ \E u \in {parsedURLOf(tasks[t].target)} : Scanned(t, u)
    /\ UNCHANGED <<run, prior, call, scn, URLs, store, mainpc, faults>>

\* A variant of line 87 that starts the list anew with the target.
ClaimOverwrites(t) ==
    /\ Running(t)
    /\ tasks[t].pc = "claim"
    /\ URLs' = <<tasks[t].key>>
    /\ tasks' = [tasks EXCEPT ![t].claimed = TRUE, ![t].pc = "check"]
    /\ UNCHANGED <<run, prior, call, scn, wg, store, mainpc, abort, faults>>

\* Lines 85-88.
Claim(t) ==
    /\ Running(t)
    /\ tasks[t].pc = "claim"
    /\ URLs' = Append(URLs, tasks[t].key)
    /\ tasks' = [tasks EXCEPT ![t].claimed = TRUE, ![t].pc = "check"]
    /\ UNCHANGED <<run, prior, call, scn, wg, store, mainpc, abort, faults>>

\* Lines 90-101 and 112-114, checkForFile: f is the file read.
Checked(t, f) ==
    IF f \in DOMAIN store
    THEN tasks' = [tasks EXCEPT ![t].checked = TRUE,
                                ![t].file = f,
                                ![t].content = store[f],
                                ![t].pc = "extract"]
    ELSE tasks' = [tasks EXCEPT ![t].checked = TRUE,
                                ![t].file = f,
                                ![t].pc = "download"]

CheckForFile(t) ==
    /\ Running(t)
    /\ tasks[t].pc = "check"
    /\ \E f \in {SaveFile(tasks[t].url)} : Checked(t, f)
    /\ UNCHANGED <<run, prior, call, scn, URLs, wg, store, mainpc, abort, faults>>

\* What the server answers to GET url: http.Get parses the url again, and the
\* status is 200 for a page of the site.
ServedPage(p) ==
    IF ~p.err /\ (p.Host \o p.Path) \in DOMAIN Sites[scn]
    THEN [ok |-> TRUE, body |-> Rendered(Sites[scn][p.Host \o p.Path])]
    ELSE [ok |-> FALSE, body |-> NoBytes]

Served(url) == Only({ServedPage(p) : p \in {Parse(url)}})

\* A variant of download that returns what it has read together with the
\* error.
DownloadedKeepsBody(t, r) ==
    \/ /\ r.ok
       /\ tasks' = [tasks EXCEPT ![t].fetched = @ + 1,
                                 ![t].content = r.body,
                                 ![t].pc = "save"]
       /\ faults' = faults
    \/ /\ ~r.ok
       /\ tasks' = [tasks EXCEPT ![t].fetched = @ + 1,
                                 ![t].dlerr = TRUE,
                                 ![t].pc = "save"]
       /\ faults' = faults
    \/ /\ faults < MaxFaults
       /\ tasks' = [tasks EXCEPT ![t].fetched = @ + 1,
                                 ![t].dlerr = TRUE,
                                 ![t].content = r.body,
                                 ![t].pc = "save"]
       /\ faults' = faults + 1

\* Lines 103-106, download: the body, or nil and an error that is printed.
\* The request fails when the server has no such page, and it may fail in
\* transport.
Downloaded(t, r) ==
    \/ /\ r.ok
       /\ tasks' = [tasks EXCEPT ![t].fetched = @ + 1,
                                 ![t].content = r.body,
                                 ![t].pc = "save"]
       /\ faults' = faults
    \/ /\ ~r.ok
       /\ tasks' = [tasks EXCEPT ![t].fetched = @ + 1,
                                 ![t].dlerr = TRUE,
                                 ![t].pc = "save"]
       /\ faults' = faults
    \/ /\ faults < MaxFaults
       /\ tasks' = [tasks EXCEPT ![t].fetched = @ + 1,
                                 ![t].dlerr = TRUE,
                                 ![t].pc = "save"]
       /\ faults' = faults + 1

Download(t) ==
    /\ Running(t)
    /\ tasks[t].pc = "download"
    /\ \E r \in {Served(tasks[t].key)} : Downloaded(t, r)
    /\ UNCHANGED <<run, prior, call, scn, URLs, wg, store, mainpc, abort>>

\* Lines 109 and 177-185, the first half of save: os.MkdirAll and os.Create
\* leave the file f empty, new or truncated; or one of them fails, save
\* returns the error and it is printed.
Created(t, f) ==
    \/ /\ store' = [g \in DOMAIN store \cup {f} |-> IF g = f THEN NoBytes ELSE store[g]]
       /\ tasks' = [tasks EXCEPT ![t].saved = @ + 1,
                                 ![t].created = TRUE,
                                 ![t].pc = "write"]
       /\ faults' = faults
    \/ /\ faults < MaxFaults
       /\ store' = store
       /\ tasks' = [tasks EXCEPT ![t].saved = @ + 1,
                                 ![t].saveerr = TRUE,
                                 ![t].pc = "extract"]
       /\ faults' = faults + 1

SaveCreate(t) ==
    /\ Running(t)
    /\ tasks[t].pc = "save"
    /\ Created(t, tasks[t].file)
    /\ UNCHANGED <<run, prior, call, scn, URLs, wg, mainpc, abort>>

\* Lines 187-192 and 109-111, the second half of save: file.Write puts the
\* content at the start of the file as it is by now, which another call may
\* have written since line 181; or it fails, the file stays as it is, save
\* returns the error and it is printed.  A Write of no bytes (the content is
\* nil after a failed download) changes nothing and does not fail.
Written(t, f) ==
    \/ /\ store' = [store EXCEPT ![f] = Overwritten(tasks[t].content, @)]
       /\ tasks' = [tasks EXCEPT ![t].pc = "extract"]
       /\ faults' = faults
    \/ /\ faults < MaxFaults
       /\ tasks[t].content.size > 0
       /\ store' = store
       /\ tasks' = [tasks EXCEPT ![t].saveerr = TRUE, ![t].pc = "extract"]
       /\ faults' = faults + 1

SaveWrite(t) ==
    /\ Running(t)
    /\ tasks[t].pc = "write"
    /\ Written(t, tasks[t].file)
    /\ UNCHANGED <<run, prior, call, scn, URLs, wg, mainpc, abort>>

\* Lines 117-126: parseHTML (html.Parse reads a string and returns no error)
\* and extractUrls, which returns the urls or panics in checkIfChildren.
Extracted(t, r) ==
    IF r.panic
    THEN Panicking(t, "regexp")
    ELSE /\ tasks' = [tasks EXCEPT ![t].parsed = TRUE, ![t].urls = r.urls, ![t].pc = "spawn"]
         /\ wg' = wg

Extract(t) ==
    /\ Running(t)
    /\ tasks[t].pc = "extract"
    /\ \E r \in {extractUrls(parseHTML(tasks[t].content), tasks[t].url)} : Extracted(t, r)
    /\ UNCHANGED <<run, prior, call, scn, URLs, store, mainpc, abort, faults>>

\* A variant of the loop that leaves the counter as it is.
WgAddForgotten(t) ==
    /\ Running(t)
    /\ tasks[t].pc = "spawn"
    /\ tasks[t].next <= Len(tasks[t].urls)
    /\ wg' = wg
    /\ tasks' = [tasks EXCEPT ![t].pc = "go"]
    /\ UNCHANGED <<run, prior, call, scn, URLs, store, mainpc, abort, faults>>

\* Lines 129-130, one turn of the loop: wg.Add(1) for the next url.
WgAdd(t) ==
    /\ Running(t)
    /\ tasks[t].pc = "spawn"
    /\ tasks[t].next <= Len(tasks[t].urls)
    /\ wg' = wg + 1
    /\ tasks' = [tasks EXCEPT ![t].pc = "go"]
    /\ UNCHANGED <<run, prior, call, scn, URLs, store, mainpc, abort, faults>>

\* Lines 132-135: the go statement starts the goroutine for that url.
Spawn(t) ==
    /\ Running(t)
    /\ tasks[t].pc = "go"
    /\ tasks' = [tasks EXCEPT ![t].next = @ + 1, ![t].pc = "spawn"]
                @@ (Append(t, tasks[t].next) :> NewTask(tasks[t].urls[tasks[t].next]))
    /\ UNCHANGED <<run, prior, call, scn, URLs, wg, store, mainpc, abort, faults>>

\* Line 139: what process returns.
ProcessResult(dlerr, saveerr) == "nil"

Returned(t, r) ==
    /\ tasks' = [tasks EXCEPT ![t].ret = r, ![t].pc = "done"]
    /\ IF t = Main
       THEN /\ wg' = wg
            /\ mainpc' = IF r = "nil" THEN "wait" ELSE mainpc
            /\ abort' = IF r = "nil" THEN abort ELSE "main-panic"
       ELSE /\ wg' = wg - 1
            /\ UNCHANGED <<mainpc, abort>>

\* Line 139, and for a goroutine the deferred wg.Done() of line 133; for the
\* call of line 56, lines 57-59.
Return(t) ==
    /\ Running(t)
    /\ \/ tasks[t].pc = "return"
       \/ tasks[t].pc = "spawn" /\ tasks[t].next > Len(tasks[t].urls)
    /\ Returned(t, ProcessResult(tasks[t].dlerr, tasks[t].saveerr))
    /\ UNCHANGED <<run, prior, call, scn, URLs, store, faults>>

\* A variant of the barrier that does not wait.
WaitReturnsAtOnce(counter) == counter >= 0

\* wg.Wait() returns when the counter is zero.
WaitReturns(counter) == counter = 0

\* Lines 61-63.
Wait ==
    /\ abort = ""
    /\ mainpc = "wait"
    /\ WaitReturns(wg)
    /\ mainpc' = "done"
    /\ UNCHANGED <<run, prior, call, scn, URLs, wg, tasks, store, abort, faults>>

\* The program run again with the same -url and -dir once it has printed
\* "done!" and exited with status 0: a new process, so URLs and the WaitGroup are new (lines 22-27), over
\* the files the first run left.
Rerun ==
    /\ abort = ""
    /\ mainpc = "done"
    /\ \A t \in DOMAIN tasks : tasks[t].pc # "panic"
    /\ run = "first"
    /\ run' = "second"
    /\ prior' = [files |-> DOMAIN store,
                 populated |-> \A t \in DOMAIN tasks : ~tasks[t].saveerr]
    /\ URLs' = <<>>
    /\ wg' = 0
    /\ tasks' = (Main :> NewTask(Seeds[scn]))
    /\ mainpc' = "process"
    /\ UNCHANGED <<call, scn, store, abort, faults>>

Next ==
    \/ \E t \in DOMAIN tasks : Scan(t)
    \/ \E t \in DOMAIN tasks : Claim(t)
    \/ \E t \in DOMAIN tasks : CheckForFile(t)
    \/ \E t \in DOMAIN tasks : Download(t)
    \/ \E t \in DOMAIN tasks : SaveCreate(t)
    \/ \E t \in DOMAIN tasks : SaveWrite(t)
    \/ \E t \in DOMAIN tasks : Extract(t)
    \/ \E t \in DOMAIN tasks : WgAdd(t)
    \/ \E t \in DOMAIN tasks : Spawn(t)
    \/ \E t \in DOMAIN tasks : Return(t)
    \/ \E t \in DOMAIN tasks : Crash(t)
    \/ Wait
    \/ Rerun

Spec == Init /\ [][Next]_vars

\* The Go scheduler runs every runnable goroutine eventually.
FairSpec == Spec /\ WF_vars(Next)

(***************************************************************************)
(* The pure functions applied on their own, to inputs drawn from bounded   *)
(* sets: call holds the function, its arguments and, once applied, its     *)
(* results.                                                                *)
(***************************************************************************)

\* Lines 68-75: the target as process() rewrites it.
Normalized(target) ==
    Only({IF u.err THEN Panic ELSE KeyOf(u) : u \in {parsedURLOf(target)}})

MaxSlashes == 2

RECURSIVE Slashes(_)
Slashes(n) == IF n = 0 THEN "" ELSE "/" \o Slashes(n - 1)

\* URLs given to process(): a base, trailing slashes, and what may follow.
NormalizeBases == {"https://g", "https://g/a", "https://g/a/b", "http://g:80/a", "https://g/a%2Fb"}

NormalizeTails == {"", "?q=1", "#f", "%3Fq", "%25"}

NormalizeInputs ==
    {b \o Slashes(n) \o t : b \in NormalizeBases, n \in 0..MaxSlashes, t \in NormalizeTails}

\* The arguments of checkIfChildren: every text of a few characters, among
\* them the separator, a character special in a pattern, and the line feed.
MaxInput == 4

MaxTarget == 2

Alphabet == {"a", "/", ".", LF}

RECURSIVE Words(_)
Words(n) ==
    IF n = 0 THEN {""}
    ELSE LET W == Words(n - 1) IN W \cup {w \o c : w \in W, c \in Alphabet}

\* Arguments with bytes beyond ASCII: e-acute (C3 A9) and e-grave (C3 A8) in
\* UTF-8, U+FFFD (EF BF BD), and the byte FF, which is in no valid encoding.
RuneInputs == {"g/\fC3\fA9", "g/\fC3\fA9/x", "g/\fC3\fA8", "g/\fFF", "g/\fEF\fBF\fBD"}

RuneTargets == {"g/\fC3\fA9", "g/\fFF", "g/\fEF\fBF\fBD"}

\* The documents given to extractUrls: up to MaxAnchors anchors with these
\* hrefs, and DocAnchors; the page processed is https://g/d.
MaxAnchors == 2

Hrefs ==
    {"#top", "/", "/d", "/d/", "/d//", "/d/a", "/d/a/", "/d/a//", "/d/a?q=1",
     "/d/a%3Fq", "/d/a%0Ab", "/dx", "/blog", "https://o/d/a", "https://g/d/b",
     "http://g/d/b#f", "d/a", "g/d/a?q=1"}

\* <a> elements with more than one href: the first one does not parse, is a
\* fragment, names another host, or is a link like the second.
Repeated ==
    {<<"http://%zz", "/d/a">>, <<"/d/%zz", "/d/a">>, <<"http://g/d/%", "/d/b">>,
     <<"#top", "/d/c">>, <<"https://o/x", "/d/c">>, <<"/d/a", "/d/b">>}

\* The <a> elements of the documents: one href, several, or none.
Elements == {<<h>> : h \in Hrefs} \cup Repeated \cup {<<>>}

RECURSIVE Anchors(_)
Anchors(n) ==
    IF n = 0 THEN {<<>>}
    ELSE LET D == Anchors(n - 1) IN D \cup {Append(d, e) : d \in D, e \in Elements}

\* The anchors of the example of link extraction.
DocAnchors ==
    <<<<"#top">>, <<"/">>, <<"/d/a">>, <<"https://o/x">>, <<"https://g/d/b?q">>,
      <<"/blog">>, <<"/dx">>>>

Docs == Anchors(MaxAnchors) \cup {DocAnchors}

Page == "https://g/d"

PureInit ==
    /\ scn = 1
    /\ tasks = (Main :> NewTask(Seeds[1]))
    /\ Started
    /\ \/ \E u \in NormalizeInputs :
             call = [op |-> "normalize", args |-> <<u>>, out |-> <<>>]
       \/ \E i \in Words(MaxInput), t \in Words(MaxTarget) :
             call = [op |-> "checkIfChildren", args |-> <<i, t>>, out |-> <<>>]
       \/ \E i \in RuneInputs, t \in RuneTargets :
             call = [op |-> "checkIfChildren", args |-> <<i, t>>, out |-> <<>>]
       \/ \E d \in Docs :
             call = [op |-> "extractUrls", args |-> <<d, Page>>, out |-> <<>>]

\* Lines 68-75 applied to the target, then to their own result.
Normalize ==
    /\ call.op = "normalize"
    /\ Len(call.out) < 2
    /\ call.out # <<Panic>>
    /\ \E u \in {IF call.out = <<>> THEN call.args[1] ELSE call.out[1]} :
          call' = [call EXCEPT !.out = Append(@, Normalized(u))]
    /\ UNCHANGED <<run, prior, scn, URLs, wg, tasks, store, mainpc, abort, faults>>

CheckIfChildren ==
    /\ call.op = "checkIfChildren"
    /\ call.out = <<>>
    /\ call' = [call EXCEPT !.out = <<checkIfChildren(call.args[1], call.args[2])>>]
    /\ UNCHANGED <<run, prior, scn, URLs, wg, tasks, store, mainpc, abort, faults>>

ExtractUrls ==
    /\ call.op = "extractUrls"
    /\ call.out = <<>>
    /\ call' = [call EXCEPT !.out = <<extractUrls(call.args[1], parsedURLOf(call.args[2]))>>]
    /\ UNCHANGED <<run, prior, scn, URLs, wg, tasks, store, mainpc, abort, faults>>

PureNext == Normalize \/ CheckIfChildren \/ ExtractUrls

PureSpec == PureInit /\ [][PureNext]_vars

(***************************************************************************)
(* What the claims speak of.                                               *)
(***************************************************************************)
T == DOMAIN tasks

Goroutines == T \ {Main}

\* The tasks for key k that have appended it to URLs.
Claimers(k) == {t \in T : tasks[t].claimed /\ tasks[t].key = k}

\* The tasks for key k that are past the loop of line 79.
Decided(k) == {t \in T : tasks[t].key = k /\ tasks[t].pc \notin {"start", "claim"}}

Keys == {tasks[t].key : t \in {u \in T : tasks[u].key # ""}}

Files == {tasks[t].file : t \in {u \in T : tasks[u].checked}}

RECURSIVE Sum(_, _)
Sum(f, S) == IF S = {} THEN 0 ELSE LET x == CHOOSE y \in S : TRUE IN f[x] + Sum(f, S \ {x})

Fetches(f) == Sum([t \in T |-> tasks[t].fetched], {t \in T : tasks[t].file = f})

Saves(f) == Sum([t \in T |-> tasks[t].saved], {t \in T : tasks[t].file = f})

\* The tasks between the cache check and the end of save for file f.
Writing(f) == {t \in T : tasks[t].file = f /\ tasks[t].pc \in {"download", "save", "write"}}

SeedURL == parsedURLOf(Seeds[scn])

\* The scope of seed: its host, and its path or a descendant of its path.
InScopeOf(u, seed) ==
    /\ u.Host = seed.Host
    /\ \/ u.Path = seed.Path
       \/ HasPrefix(u.Path, seed.Path \o "/")

\* C1: the claim of a key is exactly-once: of the process() calls for one key,
\* at most one finds it absent and appends it, and once a call for the key is
\* past the check exactly one has.
C1_ClaimExactlyOnce ==
    \A k \in Keys :
        /\ Cardinality(Claimers(k)) <= 1
        /\ (Decided(k) # {} => Cardinality(Claimers(k)) = 1)

\* C2: for every file of the mirror, download and save are called at most
\* once, and no two tasks are between the cache check and the save for it.
C2_OneFetchAndSavePerFile ==
    \A f \in Files :
        /\ Fetches(f) <= 1
        /\ Saves(f) <= 1
        /\ Cardinality(Writing(f)) <= 1

\* C3: wg.Wait() has returned only when every process() call has ended, by
\* returning or by a panic whose deferred wg.Done() has run: none is running
\* and no extracted url is still to be spawned.
C3_BarrierAfterAllTasks ==
    mainpc = "done" =>
        \A t \in T :
            /\ tasks[t].pc \in {"done", "panic"}
            /\ tasks[t].next > Len(tasks[t].urls)
            /\ \A i \in 1..Len(tasks[t].urls) : Append(t, i) \in T

C3_Witness ==
    /\ mainpc = "done"
    /\ Cardinality(Goroutines) >= 2
    /\ \E t \in Goroutines : Append(t, 1) \in T /\ tasks[Append(t, 1)].pc = "done"

\* C4: under fair scheduling the crawl terminates: main reaches line 63.
C4_Terminates == <>(mainpc = "done")

\* The pages the claim C5 calls reachable: from the seed, through links that
\* extraction with the seed as its scope accepts, to pages the server has.
LinkKey(target) == KeyOf(parsedURLOf(target))

LinksInSeedScope(r) ==
    UNION {{LinkKey(links[i]) : i \in 1..Len(links)} : links \in {extractUrls(parseHTML(r.body), SeedURL).urls}}

RECURSIVE ReachFrom(_)
ReachFrom(S) ==
    LET N == S \cup {k \in UNION {LinksInSeedScope(Served(j)) : j \in S} : Served(k).ok}
    IN  IF N = S THEN S ELSE ReachFrom(N)

NoFailure == \A t \in T : ~tasks[t].dlerr /\ ~tasks[t].saveerr

\* C5: a crawl of an empty mirror that finished without a fetch or store
\* failure has written a file for every page reachable from the seed within
\* the seed's scope.
C5_MirrorComplete ==
    (run = "first" /\ mainpc = "done" /\ NoFailure) =>
        \A k \in ReachFrom({KeyOf(SeedURL)}) : SaveFile(Parse(k)) \in DOMAIN store

\* C6: the URL of every task that has claimed its key (and so of every task
\* that downloads or saves) is in the seed's scope, every key of the visited list
\* is the key of such a task, and every file the run has put in the store is
\* the file of such a task: nothing is claimed, downloaded or saved outside
\* the scope.
C6_ScopeSafety ==
    /\ \E seed \in {SeedURL} :
          /\ \A t \in T : tasks[t].claimed => InScopeOf(tasks[t].url, seed)
          /\ \A i \in 1..Len(URLs) :
                \E t \in T : /\ tasks[t].claimed
                              /\ tasks[t].key = URLs[i]
                              /\ URLs[i] = KeyOf(tasks[t].url)
                              /\ InScopeOf(tasks[t].url, seed)
    /\ \A f \in DOMAIN store \ prior.files : \E t \in T : tasks[t].saved > 0 /\ tasks[t].file = f

\* What a task has done for its URL after the check of lines 79-85.
Worked(t) ==
    \/ tasks[t].checked
    \/ tasks[t].fetched > 0
    \/ tasks[t].saved > 0
    \/ tasks[t].parsed
    \/ tasks[t].next > 1
    \/ Append(t, 1) \in T
    \/ tasks[t].pc \in {"check", "download", "save", "write", "extract", "spawn", "go"}

\* C7: a task works for its URL only after it has put the URL in the visited
\* list, and a call that finds its URL in the list does no work at all.
C7_ClaimBeforeWork ==
    \A t \in T :
        /\ Worked(t) => (tasks[t].claimed /\ \E i \in 1..Len(URLs) : URLs[i] = tasks[t].key)
        /\ tasks[t].inList => (~Worked(t) /\ ~tasks[t].claimed)

C7_Witness ==
    /\ \E t \in T : tasks[t].inList /\ tasks[t].pc = "done"
    /\ \E t \in T : tasks[t].claimed /\ tasks[t].saved > 0 /\ Append(t, 1) \in T

\* C8: process returns nil whatever failed inside it, and no failure of
\* download, save, parsing or extraction ends a call of process or the
\* program.
C8_ErrorsSwallowed ==
    /\ \A t \in T : tasks[t].pc = "done" => tasks[t].ret = "nil"
    /\ \A t \in T : tasks[t].cause # "regexp"
    /\ abort \notin {"main-panic", "regexp"}

\* The goroutines that have neither returned nor panicked.
Pending == {t \in Goroutines : tasks[t].pc \notin {"done", "panic"}}

\* The tasks between wg.Add(1) and the go statement: each has counted a
\* goroutine that is about to be spawned.
Adding == {t \in T : tasks[t].pc = "go"}

\* C9: a task whose download failed goes on with empty content, extracts no
\* link, spawns no task, has called download once, is never stuck, and when
\* it has returned its count of the WaitGroup is released.
C9_FetchFailure ==
    \A t \in T :
        tasks[t].dlerr =>
            /\ tasks[t].content = NoBytes
            /\ tasks[t].urls = <<>>
            /\ Append(t, 1) \notin T
            /\ tasks[t].fetched = 1
            /\ tasks[t].pc \in {"save", "write", "extract", "spawn", "done"}
            /\ (tasks[t].pc = "done" => wg = Cardinality(Pending) + Cardinality(Adding))
            /\ abort # "main-panic"

C9_Witness ==
    /\ scn = 1
    /\ mainpc = "done"
    /\ \E t \in Goroutines : tasks[t].dlerr /\ tasks[t].pc = "done" /\ tasks[t].url.Path = "/d/a/c"
    /\ \E t \in Goroutines : tasks[t].pc = "done" /\ tasks[t].created /\ ~tasks[t].dlerr

\* C10: a spawned task whose URL does not parse does not end the program.
C10_ParseErrorNotFatal ==
    \A t \in Goroutines : parsedURLOf(tasks[t].target).err => abort # "nil-deref"

\* C11: the second run over a mirror the first run populated (the first run
\* finished and every save of it succeeded) calls download for no page: every
\* page it processes is read from the store.
C11_SecondRunFetchesNothing ==
    (run = "second" /\ prior.populated) =>
        \A t \in T : tasks[t].fetched = 0 /\ tasks[t].pc # "download"

\* C12: the normalization of process() is idempotent: applied to its own
\* result it gives that result again.
C12_NormalizeIdempotent ==
    (call.op = "normalize" /\ Len(call.out) = 2) => call.out[2] = call.out[1]

\* C13: checkIfChildren(input, target) returns, and it is true exactly when
\* input is target or starts with target followed by "/".
C13_ChildrenIffPrefix ==
    (call.op = "checkIfChildren" /\ call.out # <<>>) =>
        /\ MustCompile(call.args[2])
        /\ call.out[1] = (\/ call.args[1] = call.args[2]
                          \/ HasPrefix(call.args[1], call.args[2] \o "/"))

\* C14: no URL is twice in the list extractUrls returns.
C14_ExtractedOnce ==
    (call.op = "extractUrls" /\ call.out # <<>>) =>
        \A i, j \in 1..Len(call.out[1].urls) : call.out[1].urls[i] = call.out[1].urls[j] => i = j

\* C15: every string extractUrls returns is the page's scheme and host and a
\* path under the page's, without query string and without trailing slash;
\* and of the anchors #top, /, /d/a, another host's, /d/b with a query, /blog
\* and /dx it returns /d/a and /d/b, in that order.
C15_ExtractedShape ==
    (call.op = "extractUrls" /\ call.out # <<>>) =>
        /\ \A i \in 1..Len(call.out[1].urls) :
              /\ HasPrefix(call.out[1].urls[i], call.args[2] \o "/")
              /\ ~HasSuffix(call.out[1].urls[i], "/")
              /\ ~Contains(call.out[1].urls[i], "?")
              /\ ~Contains(call.out[1].urls[i], "#")
        /\ call.args[1] = DocAnchors =>
              call.out[1].urls = <<"https://g/d/a", "https://g/d/b">>

\* C16: the counter is never negative and is the number of goroutines that
\* are spawned and not completed plus those counted by wg.Add(1) and about to
\* be spawned; so it is not zero while a spawned task runs or one is about to
\* be spawned, and a task that has completed, on whatever path, is counted no
\* more.
C16_GateCounts ==
    /\ wg >= 0
    /\ wg = Cardinality(Pending) + Cardinality(Adding)
    /\ wg = 0 => (Pending = {} /\ Adding = {})

C16_Witness ==
    /\ wg >= 2
    /\ Adding # {}
    /\ \E t \in Goroutines : tasks[t].pc = "done" /\ tasks[t].dlerr

\* The tasks that have put their key in the visited list and computed their
\* file.
Filed == {t \in T : tasks[t].claimed /\ tasks[t].checked}

\* C17: every key of the visited list is normalized (no trailing slash, no
\* query, no fragment), no key is in the list twice, and two different keys
\* never have the same save path.
C17_KeysNormalized ==
    /\ \A i \in 1..Len(URLs) :
          /\ ~HasSuffix(URLs[i], "/")
          /\ ~Contains(URLs[i], "?")
          /\ ~Contains(URLs[i], "#")
    /\ \A i, j \in 1..Len(URLs) : URLs[i] = URLs[j] => i = j
    /\ \A t, u \in Filed : tasks[t].file = tasks[u].file => tasks[t].key = tasks[u].key

\* C18: the visited list is empty when the crawl starts, and every step of a
\* run leaves it as it is or appends the key of one task to it.
C18_ListGrows ==
    /\ [](tasks[Main].pc = "start" => URLs = <<>>)
    /\ [][run' = run =>
            \/ URLs' = URLs
            \/ \E t \in T : URLs' = Append(URLs, tasks[t].key)]_vars

C18_Witness ==
    /\ run = "first"
    /\ Len(URLs) >= 3
    /\ \E t \in Goroutines : tasks[t].claimed /\ tasks[t].pc = "done"

\* C19: a task whose download failed leaves no file: its save, if called,
\* creates none.
C19_NoFileAfterFailedFetch ==
    \A t \in T : tasks[t].dlerr => ~tasks[t].created

\* The task that spawned goroutine t.
Parent(t) == SubSeq(t, 1, Len(t) - 1)

\* C20: the page of every spawned task lies under the page of its parent:
\* the same host, and a path that is the parent's path, "/" and more, so
\* strictly longer.
C20_ChildUnderParent ==
    \A t \in Goroutines :
        tasks[t].key # "" =>
            /\ tasks[t].url.Host = tasks[Parent(t)].url.Host
            /\ HasPrefix(tasks[t].url.Path, tasks[Parent(t)].url.Path \o "/")
            /\ Len(tasks[t].url.Path) > Len(tasks[Parent(t)].url.Path) + 1

====
